---- MODULE Spec2Model ----
(***************************************************************************)
(* aead-io: EncryptBufWriter (src/src/writer.rs) and DecryptBufReader      *)
(* (src/src/reader.rs) over a byte sink / byte source.                     *)
(*                                                                         *)
(* The wire is a sequence of bytes 0..255.  The streaming AEAD of the      *)
(* external `aead` crate is idealised: a chunk is a keystream-masked body  *)
(* followed by TagSize tag bytes, and a chunk verifies exactly when it is  *)
(* the encryption, under the same nonce, stream position and last-flag,    *)
(* of a plaintext the encryptor can be given (bytes of PtBytes).           *)
(* Lengths are usize values below 2^31; the stream counter never reaches   *)
(* COUNTER_MAX within the bounds.                                          *)
(***************************************************************************)
EXTENDS Integers, Sequences, FiniteSets, TLC

\* ------------------------------------------------------------ bounds
MaxCap == 5        \* largest buffer capacity handed to a constructor
MaxPlain == 3      \* most plaintext bytes a writer accepts in a run
MaxSlice == 3      \* longest caller slice of one write / read call
MaxOps == 3        \* most write / flush / into_inner calls on one writer
MaxFaults == 1     \* most sink failures in a run
MaxDeliver == 6    \* reads stop once this many bytes were delivered

\* ------------------------------------------------- AEAD parameters
TagSize == 2       \* <A as AeadCore>::TagSize
NonceSize == 2     \* NonceSize<A, S>
LenSize == 4       \* [0u8; 4], u32::to_be_bytes
Limb == 65536      \* 2^16: a u32 is two limbs, u32::MAX = (Limb-1, Limb-1)

PtBytes == 1..MaxPlain          \* plaintext byte values a caller writes
\* the plaintext a caller writes: every byte distinct, so that a lost, repeated or
\* reordered byte shows
Plaintext == [i \in 1..MaxPlain |-> i]
Nonces == {[i \in 1..NonceSize |-> 6 + i]}   \* every byte distinct
BufKinds == {"array", "vec"}   \* ArrayBuffer<CAP> (fixed) / Vec<u8> (grows)
\* the buffer of the reader of an attacked stream (the one of the crate's tests)
ReaderKinds == {"vec"}
ShortReads == {1, 3, LenSize}   \* most bytes the source hands out per read call
Ctors == {"new", "from_aead"}

Min(a, b) == IF a <= b THEN a ELSE b

IsPrefix(s, t) == Len(s) <= Len(t) /\ SubSeq(t, 1, Len(s)) = s

Zeros(n) == [i \in 1..n |-> 0]

\* let: Only({e : x \in {v}}) is e with x naming the value of v, computed once
Only(S) == CHOOSE x \in S : TRUE

\* --------------------------------------------------- framing codec
\* the length written little-endian
ToLeBytes(n) ==
    << n % 256, (n \div 256) % 256, (n \div 65536) % 256, (n \div 16777216) % 256 >>

\* (len as u32).to_be_bytes(): the four low-order base-256 digits
ToBeBytes(n) ==
    << (n \div 16777216) % 256, (n \div 65536) % 256, (n \div 256) % 256, n % 256 >>

\* u32::from_be_bytes as two 16-bit limbs
HiLimb(b) == b[1] * 256 + b[2]
LoLimb(b) == b[3] * 256 + b[4]

\* the bound checked against capacity + tag size
DeclaredGreaterLoose(b, cap) ==
    \/ HiLimb(b) > (cap + TagSize) \div Limb
    \/ HiLimb(b) = (cap + TagSize) \div Limb /\ LoLimb(b) > (cap + TagSize) % Limb

\* u32::from_be_bytes(b) as usize > cap
DeclaredGreater(b, cap) ==
    \/ HiLimb(b) > cap \div Limb
    \/ HiLimb(b) = cap \div Limb /\ LoLimb(b) > cap % Limb

\* u32::from_be_bytes(b) as usize, for a value below 2^31
FromBeBytes(b) == HiLimb(b) * Limb + LoLimb(b)

\* buffer.capacity().min(u32::MAX as usize): every size of the model is below 2^31
ClampU32(n) == IF n \div Limb >= Limb THEN (Limb - 1) * Limb + (Limb - 1) ELSE n

\* ------------------------------------------------- idealised AEAD
Keystream(nonce, position, i) == (nonce[1] + 3 * position + i) % 256

Mask(nonce, position, body) ==
    [i \in 1..Len(body) |-> (body[i] + Keystream(nonce, position, i)) % 256]

Unmask(nonce, position, body) ==
    [i \in 1..Len(body) |-> (body[i] + 256 - Keystream(nonce, position, i)) % 256]

\* the first n bytes of a plaintext as one number
RECURSIVE PtCode(_, _)
PtCode(pt, n) ==
    IF n = 0 THEN 0 ELSE PtCode(pt, n - 1) * (Cardinality(PtBytes) + 1) + pt[n]

\* the tag as a number: one value per (position, last, plaintext) of a run
MacValue(nonce, position, last, pt) ==
    (nonce[1] + (IF last THEN 1 ELSE 0) + 2 * position
        + 2 * (MaxOps + 2) * PtCode(pt, Len(pt))) % (256 ^ Min(TagSize, 3))

TagOf(nonce, position, last, pt) ==
    Only({ [i \in 1..TagSize |-> IF TagSize - i < 3 THEN (m \div (256 ^ (TagSize - i))) % 256
                                 ELSE 0]
           : m \in {MacValue(nonce, position, last, pt)} })

\* Buffer::extend_from_slice: ArrayBuffer fails past CAP, Vec grows
ExtendFromSlice(kind, cap, buf, other) ==
    IF kind = "array" /\ Len(buf) + Len(other) > cap
    THEN [ok |-> FALSE, buffer |-> buf]
    ELSE [ok |-> TRUE, buffer |-> buf \o other]

\* every chunk encrypted as a non-last one
EncryptInPlaceNext(kind, cap, nonce, position, last, buf) ==
    ExtendFromSlice(kind, cap, Mask(nonce, position, buf), TagOf(nonce, position, FALSE, buf))

\* AeadInPlace::encrypt_in_place: mask the body in place, then append the tag
EncryptInPlace(kind, cap, nonce, position, last, buf) ==
    Only({ ExtendFromSlice(kind, cap, body, tag)
           : body \in {Mask(nonce, position, buf)},
             tag \in {TagOf(nonce, position, last, buf)} })

\* AeadInPlace::decrypt_in_place: verify the tag, unmask, truncate the tag off;
\* on failure the buffer is left as it was
DecryptInPlace(nonce, position, last, buf) ==
    IF Len(buf) < TagSize THEN [ok |-> FALSE, buffer |-> buf]
    ELSE Only({ IF (\A i \in 1..Len(pt) : pt[i] \in PtBytes)
                   /\ SubSeq(buf, Len(buf) - TagSize + 1, Len(buf))
                        = TagOf(nonce, position, last, pt)
                THEN [ok |-> TRUE, buffer |-> pt]
                ELSE [ok |-> FALSE, buffer |-> buf]
                : pt \in {Unmask(nonce, position, SubSeq(buf, 1, Len(buf) - TagSize))} })

\* ------------------------------------------------------- variables
VARIABLES
    wlife,       \* "unbuilt" | "invalid" | "live" | "dropped" | "forgotten" (mem::forget)
    ctor,        \* the constructor used: "new" | "from_aead"
    wbuf,        \* the buffer handed to the writer: [kind, cap]
    encryptor,   \* Option<Encryptor>: [some, position]
    nonce,       \* the stored nonce
    buffer,      \* the writer's buffer contents
    writer,      \* the sink: every byte it has taken
    capacity,    \* the writer's effective chunk capacity
    state,       \* "Init" | "Writing" | "Finished"
    wres,        \* the last writer call: [op, kind, n, enc_len]
    accepted,    \* plaintext the writer has accepted (sum of the Ok(n) prefixes)
    enc_last,    \* how often encrypt_last_in_place was invoked
    wops,        \* writer calls made
    wfaults,     \* sink failures so far
    werrs,       \* a writer call has returned an error or panicked
    rlife,       \* "unbuilt" | "invalid" | "live"
    rbuf,        \* the buffer handed to the reader: [kind, cap]
    attack,      \* what happened to the stream on its way: "none" | "truncated" | "tampered"
    decryptor,   \* MaybeUninitDecryptor: [tag, nonce, position]
    rbuffer,     \* the reader's buffer contents
    reader,      \* the source: [data, pos]
    bytes_to_read,
    read_offset,
    rcapacity,   \* the reader's effective capacity
    rres,        \* the last read call: [kind, want, n, oversize, len_end]
    delivered,   \* every byte copied into caller slices
    authentic,   \* the buffer holds the output of a successful decrypt
    leaked,      \* a byte was delivered from a buffer that was not authentic
    dec_last,    \* [calls, ok]: decrypt_last_in_place invocations / successes
    big          \* a writer over a Vec<u8> of a capacity around 2^32, by its lengths only

wvars == << wlife, ctor, wbuf, encryptor, nonce, buffer, writer, capacity, state,
            wres, accepted, enc_last, wops, wfaults, werrs >>
rvars == << rlife, rbuf, attack, decryptor, rbuffer, reader, bytes_to_read,
            read_offset, rcapacity, rres, delivered, authentic, leaked, dec_last >>
vars == << wvars, rvars, big >>

\* ---------------------------------------------------------- writer
NoEncryptor == [some |-> FALSE, position |-> 0]

\* EncryptBufWriter::new: the tag is not subtracted
New(cap) ==
    LET c == ClampU32(cap)
    IN IF c < 1 THEN [ok |-> FALSE, capacity |-> 0] ELSE [ok |-> TRUE, capacity |-> c]

\* EncryptBufWriter::from_aead: checked_sub(TagSize), then capacity < 1
FromAead(cap) ==
    LET c == ClampU32(cap)
    IN IF c < TagSize THEN [ok |-> FALSE, capacity |-> 0]
       ELSE IF c - TagSize < 1 THEN [ok |-> FALSE, capacity |-> 0]
       ELSE [ok |-> TRUE, capacity |-> c - TagSize]

\* the writer as a value
Self == [encryptor |-> encryptor, nonce |-> nonce, buffer |-> buffer, writer |-> writer,
         capacity |-> capacity, state |-> state, kind |-> wbuf.kind, cap |-> wbuf.cap]

\* Write::write_all on the sink; a failing call has taken all but `short` of the bytes
WriteAll(sink, bytes, fails, short) ==
    IF fails
    THEN [ok |-> FALSE, sink |-> sink \o SubSeq(bytes, 1, Len(bytes) - Min(short, Len(bytes)))]
    ELSE [ok |-> TRUE, sink |-> sink \o bytes]

\* the AEAD step with as_mut() on the last chunk too: the encryptor is kept
EncryptStepKeep(w, last) ==
    IF ~w.encryptor.some
    THEN [ok |-> FALSE, invoked |-> FALSE, encryptor |-> w.encryptor, buffer |-> w.buffer]
    ELSE Only({ [ok |-> e.ok, invoked |-> TRUE, buffer |-> e.buffer,
                 encryptor |-> IF e.ok THEN [w.encryptor EXCEPT !.position = @ + 1]
                               ELSE w.encryptor]
                : e \in {EncryptInPlace(w.kind, w.cap, w.nonce, w.encryptor.position,
                                        last, w.buffer)} })

\* the AEAD step of flush_buffer: encryptor.take() / as_mut(), then encrypt in place
EncryptStep(w, last) ==
    IF ~w.encryptor.some
    THEN [ok |-> FALSE, invoked |-> FALSE, encryptor |-> w.encryptor, buffer |-> w.buffer]
    ELSE Only({ [ok |-> e.ok, invoked |-> TRUE, buffer |-> e.buffer,
                 encryptor |-> IF last THEN NoEncryptor
                               ELSE IF e.ok THEN [w.encryptor EXCEPT !.position = @ + 1]
                               ELSE w.encryptor]
                : e \in {EncryptInPlace(w.kind, w.cap, w.nonce, w.encryptor.position,
                                        last, w.buffer)} })

\* what a call leaves behind: the writer and the call's outcome
Outcome(w, res, enc_len, lasts, calls) ==
    [w |-> w, res |-> res, n |-> 0, enc_len |-> enc_len, lasts |-> lasts, calls |-> calls]

\* flush_buffer after its AEAD step e: the nonce if none was sent, the length, the chunk
Emit(w, e, last, f, short, base) ==
    LET lasts == IF last /\ e.invoked THEN 1 ELSE 0
        enc_len == IF e.invoked THEN Len(w.buffer) ELSE -1
        w1 == [w EXCEPT !.encryptor = e.encryptor, !.buffer = e.buffer]
    IN IF ~e.ok THEN Outcome(w1, "aead", enc_len, lasts, base)
       ELSE
       LET hdr == w.state = "Init"
           c1 == IF hdr THEN base + 1 ELSE base
           s1 == IF hdr THEN WriteAll(w.writer, w.nonce, f = c1, short)
                 ELSE [ok |-> TRUE, sink |-> w.writer]
       IN IF ~s1.ok THEN Outcome([w1 EXCEPT !.writer = s1.sink], "io", enc_len, lasts, c1)
          ELSE
          LET w2 == [w1 EXCEPT !.writer = s1.sink,
                               !.state = IF hdr THEN "Writing" ELSE @]
              s2 == WriteAll(s1.sink, ToBeBytes(Len(e.buffer)), f = c1 + 1, short)
          IN IF ~s2.ok THEN Outcome([w2 EXCEPT !.writer = s2.sink], "io", enc_len, lasts, c1 + 1)
             ELSE
             LET s3 == WriteAll(s2.sink, e.buffer, f = c1 + 2, short)
             IN IF ~s3.ok
                THEN Outcome([w2 EXCEPT !.writer = s3.sink], "io", enc_len, lasts, c1 + 2)
                ELSE Outcome([w2 EXCEPT !.writer = s3.sink,
                                        !.state = IF last THEN "Finished" ELSE @,
                                        !.buffer = << >>],
                             "ok", enc_len, lasts, c1 + 2)

\* flush_buffer without the check of the Finished state
FlushBufferUnguarded(w, last, f, short, base) ==
    Only({ Emit(w, e, last, f, short, base) : e \in {EncryptStep(w, last)} })

\* flush_buffer sending the nonce before it looks at the result of the AEAD step
FlushBufferNonceFirst(w, last, f, short, base) ==
    IF w.state = "Finished" THEN Outcome(w, "ok", -1, 0, base)
    ELSE Only({ IF ~e.ok /\ w.state = "Init"
                THEN Outcome([w EXCEPT !.encryptor = e.encryptor, !.buffer = e.buffer,
                                       !.writer = @ \o w.nonce, !.state = "Writing"],
                             "aead", IF e.invoked THEN Len(w.buffer) ELSE -1,
                             IF last /\ e.invoked THEN 1 ELSE 0, base + 1)
                ELSE Emit(w, e, last, f, short, base)
                : e \in {EncryptStep(w, last)} })

\* EncryptBufWriter::flush_buffer; the sink call number `f` of the handler fails
\* (0: none), `base` sink calls were made before
FlushBuffer(w, last, f, short, base) ==
    IF w.state = "Finished" THEN Outcome(w, "ok", -1, 0, base)
    ELSE Only({ Emit(w, e, last, f, short, base) : e \in {EncryptStep(w, last)} })

\* a remaining capacity that is one byte short
CapacityRemainingShort(w) ==
    IF w.capacity > Len(w.buffer) THEN w.capacity - Len(w.buffer) - 1 ELSE 0

\* EncryptBufWriter::capacity_remaining: capacity - buffer.len() in usize; below
\* zero it wraps to a value above every slice length (no overflow checks)
USizeWrapped == 2147483647
CapacityRemaining(w) ==
    IF w.capacity >= Len(w.buffer) THEN w.capacity - Len(w.buffer) ELSE USizeWrapped

\* write flushing also when the slice just fits: >= for >
WriteRestEager(w, buf, f, took) ==
    Only({ IF fl.res # "ok" THEN fl
           ELSE LET bytes_to_write == Min(Len(buf), CapacityRemaining(fl.w))
                    x == ExtendFromSlice(fl.w.kind, fl.w.cap, fl.w.buffer,
                                         SubSeq(buf, 1, bytes_to_write))
                IN IF ~x.ok THEN [fl EXCEPT !.res = "aead"]
                   ELSE [fl EXCEPT !.w.buffer = x.buffer, !.n = bytes_to_write]
           : fl \in {IF Len(buf) >= CapacityRemaining(w)
                     THEN FlushBuffer(w, FALSE, f, took, 0)
                     ELSE Outcome(w, "ok", -1, 0, 0)} })

\* write flushing the buffer as soon as it is full
WriteRestFlushFull(w, buf, f, took) ==
    Only({ IF fl.res # "ok" THEN fl
           ELSE LET bytes_to_write == Min(Len(buf), CapacityRemaining(fl.w))
                    x == ExtendFromSlice(fl.w.kind, fl.w.cap, fl.w.buffer,
                                         SubSeq(buf, 1, bytes_to_write))
                IN IF ~x.ok THEN [fl EXCEPT !.res = "aead"]
                   ELSE IF Len(x.buffer) = fl.w.capacity
                   THEN [FlushBuffer([fl.w EXCEPT !.buffer = x.buffer], FALSE, f, took,
                                     fl.calls) EXCEPT !.n = bytes_to_write]
                   ELSE [fl EXCEPT !.w.buffer = x.buffer, !.n = bytes_to_write]
           : fl \in {IF Len(buf) > CapacityRemaining(w)
                     THEN FlushBuffer(w, FALSE, f, took, 0)
                     ELSE Outcome(w, "ok", -1, 0, 0)} })

\* EncryptBufWriter::write, after the capacity_remaining of its first line
WriteRest(w, buf, f, took) ==
    Only({ IF fl.res # "ok" THEN fl
           ELSE LET bytes_to_write == Min(Len(buf), CapacityRemaining(fl.w))
                    x == ExtendFromSlice(fl.w.kind, fl.w.cap, fl.w.buffer,
                                         SubSeq(buf, 1, bytes_to_write))
                IN IF ~x.ok THEN [fl EXCEPT !.res = "aead"]
                   ELSE [fl EXCEPT !.w.buffer = x.buffer, !.n = bytes_to_write]
           : fl \in {IF Len(buf) > CapacityRemaining(w)
                     THEN FlushBuffer(w, FALSE, f, took, 0)
                     ELSE Outcome(w, "ok", -1, 0, 0)} })

\* write without the check of the Finished state
WriteUnguarded(w, buf, f, took, checks) == WriteRest(w, buf, f, took)

\* EncryptBufWriter::write; with overflow checks a negative capacity_remaining
\* panics, and the unwinding drops the writer
Write_(w, buf, f, took, checks) ==
    IF w.state = "Finished" THEN Outcome(w, "aead", -1, 0, 0)
    ELSE IF checks /\ w.capacity < Len(w.buffer)
    THEN [FlushBuffer(w, TRUE, f, took, 0) EXCEPT !.res = "panic"]
    ELSE WriteRest(w, buf, f, took)

\* EncryptBufWriter::flush: flush_buffer(true)?, then the sink's flush()?
Flush_(w, f, took) ==
    Only({ IF fl.res # "ok" THEN fl
           ELSE IF f = fl.calls + 1 THEN [fl EXCEPT !.res = "io", !.calls = @ + 1]
           ELSE [fl EXCEPT !.calls = @ + 1]
           : fl \in {FlushBuffer(w, TRUE, f, took, 0)} })

\* ------------------------------------------------- writer actions
Sinks == {"none", "most"}   \* what a failing write_all had taken: nothing / all but a byte
Short(took) == IF took = "none" THEN MaxCap + TagSize + LenSize ELSE 1
FaultChoices == IF wfaults < MaxFaults THEN 0..4 ELSE {0}

Settle(o, op, life) ==
    /\ encryptor' = o.w.encryptor
    /\ buffer' = o.w.buffer
    /\ writer' = o.w.writer
    /\ state' = o.w.state
    /\ wlife' = life
    /\ wres' = [op |-> op, kind |-> o.res, n |-> o.n, enc_len |-> o.enc_len]
    /\ enc_last' = enc_last + o.lasts
    /\ wfaults' = IF o.res = "io" THEN wfaults + 1 ELSE wfaults
    /\ wops' = wops + 1
    /\ werrs' = (werrs \/ (op # "drop" /\ o.res # "ok"))
    /\ UNCHANGED << ctor, wbuf, nonce, capacity, big >>

Construct(c, k, cap, nn) ==
    /\ wlife = "unbuilt"
    /\ \E r \in {IF c = "new" THEN New(cap) ELSE FromAead(cap)} :
          /\ wlife' = IF r.ok THEN "live" ELSE "invalid"
          /\ capacity' = r.capacity
          /\ encryptor' = IF r.ok THEN [some |-> TRUE, position |-> 0] ELSE NoEncryptor
          /\ wres' = [op |-> "construct", kind |-> IF r.ok THEN "ok" ELSE "invalid",
                      n |-> 0, enc_len |-> -1]
    /\ ctor' = c
    /\ wbuf' = [kind |-> k, cap |-> cap]
    /\ nonce' = nn
    /\ buffer' = << >>
    /\ state' = "Init"
    /\ UNCHANGED << writer, accepted, enc_last, wops, wfaults, werrs >>
    /\ UNCHANGED << rvars, big >>

\* the caller offers the `len` bytes that follow the ones accepted so far
Write(len, f, took, checks) ==
    /\ wlife = "live"
    /\ wops < MaxOps
    /\ Len(accepted) + len <= MaxPlain
    /\ \E buf \in {SubSeq(Plaintext, Len(accepted) + 1, Len(accepted) + len)} :
       \E o \in {Write_(Self, buf, f, Short(took), checks)} :
          /\ Settle(o, "write", IF o.res = "panic" THEN "dropped" ELSE "live")
          /\ accepted' = accepted \o SubSeq(buf, 1, o.n)
    /\ UNCHANGED rvars

Flush(f, took) ==
    /\ wlife = "live"
    /\ wops < MaxOps
    /\ \E o \in {Flush_(Self, f, Short(took))} : Settle(o, "flush", "live")
    /\ UNCHANGED accepted
    /\ UNCHANGED rvars

\* into_inner: Ok hands the sink back and forgets the writer; Err hands the writer back
IntoInner(f, took) ==
    /\ wlife = "live"
    /\ wops < MaxOps
    /\ \E o \in {FlushBuffer(Self, TRUE, f, Short(took), 0)} :
          Settle(o, "into_inner", IF o.res = "ok" THEN "forgotten" ELSE "live")
    /\ UNCHANGED accepted
    /\ UNCHANGED rvars

\* Drop: let _ = self.flush_buffer(true)
Drop(f, took) ==
    /\ wlife = "live"
    /\ \E o \in {FlushBuffer(Self, TRUE, f, Short(took), 0)} : Settle(o, "drop", "dropped")
    /\ UNCHANGED accepted
    /\ UNCHANGED rvars

\* ---------------------------------------------------------- reader
\* DecryptBufReader::new / from_aead
NewReader(cap) ==
    LET c == ClampU32(cap)
    IN IF c < 1 THEN [ok |-> FALSE, capacity |-> 0] ELSE [ok |-> TRUE, capacity |-> c]

\* the reader as a value, with what is known of its buffer's contents
RSelf == [decryptor |-> decryptor, buffer |-> rbuffer, reader |-> reader,
          bytes_to_read |-> bytes_to_read, read_offset |-> read_offset,
          capacity |-> rcapacity, kind |-> rbuf.kind, cap |-> rbuf.cap,
          authentic |-> authentic, dec_last |-> dec_last,
          oversize |-> FALSE, len_end |-> -1]

\* a declared length above the effective capacity min(buffer capacity, u32::MAX)
Oversized(b, cap) == IF b[1] >= 128 THEN TRUE ELSE FromBeBytes(b) > ClampU32(cap)

ROutcome(r, res) ==
    [r |-> r, res |-> res, n |-> 0, out |-> << >>, unauth |-> FALSE]

\* Read::read on the source: at most k bytes per call
SourceRead(src, want, k) == Min(Min(k, want), Len(src.data) - src.pos)

\* Read::read_exact on the source: at end of input the source is left as it was
\* (rw.rs, &[u8]) or drained into the target (the default read_exact loop)
ReadExact(src, n, drain) ==
    IF Len(src.data) - src.pos >= n
    THEN [ok |-> TRUE, bytes |-> SubSeq(src.data, src.pos + 1, src.pos + n),
          src |-> [src EXCEPT !.pos = @ + n]]
    ELSE IF drain
    THEN [ok |-> FALSE,
          bytes |-> SubSeq(src.data, src.pos + 1, Len(src.data))
                    \o Zeros(n - (Len(src.data) - src.pos)),
          src |-> [src EXCEPT !.pos = Len(src.data)]]
    ELSE [ok |-> FALSE, bytes |-> Zeros(n), src |-> src]

\* the while offset < 4 loop of read_chunk_size
RECURSIVE ChunkSizeLoop(_, _, _, _)
ChunkSizeLoop(src, offset, bytes, k) ==
    IF offset < LenSize
    THEN Only({ IF read = 0
                THEN [full |-> FALSE, src |-> src, offset |-> offset, bytes |-> bytes]
                ELSE Only({ ChunkSizeLoop(s, o, b, k)
                            : s \in {[src EXCEPT !.pos = @ + read]},
                              o \in {offset + read},
                              b \in {bytes \o SubSeq(src.data, src.pos + 1, src.pos + read)} })
                : read \in {SourceRead(src, LenSize - offset, k)} })
    ELSE [full |-> TRUE, src |-> src, offset |-> offset, bytes |-> bytes]

\* read_chunk_size taking one more byte from the source after the prefix that
\* follows a chunk
ReadChunkSizeAhead(r, k) ==
    Only({ LET over == l.full /\ Oversized(l.bytes, r.cap)
               r1 == [r EXCEPT !.reader = l.src,
                               !.oversize = @ \/ over,
                               !.len_end = IF over /\ ~r.oversize THEN l.src.pos ELSE @]
           IN IF ~l.full
              THEN IF l.offset = 0 THEN ROutcome([r1 EXCEPT !.bytes_to_read = 0], "ok")
                   ELSE ROutcome(r1, "aead")
              ELSE IF DeclaredGreater(l.bytes, r.capacity)
              THEN ROutcome(r1, "aead")
              ELSE ROutcome([r1 EXCEPT !.bytes_to_read = FromBeBytes(l.bytes),
                                       !.reader.pos = IF r.buffer = << >> THEN @
                                                      ELSE Min(@ + 1, Len(l.src.data))],
                       "ok")
           : l \in {ChunkSizeLoop(r.reader, 0, << >>, k)} })

\* read_chunk_size taking the end of the source inside a prefix for a clean end
ReadChunkSizeLenient(r, k) ==
    Only({ LET over == l.full /\ Oversized(l.bytes, r.cap)
               r1 == [r EXCEPT !.reader = l.src,
                               !.oversize = @ \/ over,
                               !.len_end = IF over /\ ~r.oversize THEN l.src.pos ELSE @]
           IN IF ~l.full
              THEN ROutcome([r1 EXCEPT !.bytes_to_read = 0], "ok")
              ELSE IF DeclaredGreater(l.bytes, r.capacity)
              THEN ROutcome(r1, "aead")
              ELSE ROutcome([r1 EXCEPT !.bytes_to_read = FromBeBytes(l.bytes)], "ok")
           : l \in {ChunkSizeLoop(r.reader, 0, << >>, k)} })

\* DecryptBufReader::read_chunk_size
ReadChunkSize(r, k) ==
    Only({ LET over == l.full /\ Oversized(l.bytes, r.cap)
               r1 == [r EXCEPT !.reader = l.src,
                               !.oversize = @ \/ over,
                               !.len_end = IF over /\ ~r.oversize THEN l.src.pos ELSE @]
           IN IF ~l.full
              THEN IF l.offset = 0 THEN ROutcome([r1 EXCEPT !.bytes_to_read = 0], "ok")
                   ELSE ROutcome(r1, "aead")
              ELSE IF DeclaredGreater(l.bytes, r.capacity)
              THEN ROutcome(r1, "aead")
              ELSE ROutcome([r1 EXCEPT !.bytes_to_read = FromBeBytes(l.bytes)], "ok")
           : l \in {ChunkSizeLoop(r.reader, 0, << >>, k)} })

\* ResizeBuffer::resize_zeroed: ArrayBuffer fails past CAP
ResizeZeroed(kind, cap, new_len) ==
    IF kind = "array" /\ new_len > cap THEN [ok |-> FALSE] ELSE [ok |-> TRUE]

\* the decrypt step with as_mut() on the last chunk too: the decryptor is kept
DecryptStepKeep(r) ==
    Only({ LET last == r.bytes_to_read = 0
               d == r.decryptor
               has == d.tag = "Decryptor"
               d1 == IF has /\ x.ok THEN [d EXCEPT !.position = @ + 1] ELSE d
               r1 == [r EXCEPT !.decryptor = d1,
                               !.dec_last = IF last /\ has
                                            THEN [calls |-> @.calls + 1, ok |-> @.ok \/ x.ok]
                                            ELSE @]
           IN IF ~has \/ ~x.ok THEN ROutcome(r1, "aead")
              ELSE ROutcome([r1 EXCEPT !.buffer = x.buffer, !.authentic = TRUE], "ok")
           : x \in {DecryptInPlace(r.decryptor.nonce, r.decryptor.position,
                                   r.bytes_to_read = 0, r.buffer)} })

\* the decrypt step of read: take() + decrypt_last, or as_mut() + decrypt_next
DecryptStep(r) ==
    Only({ LET last == r.bytes_to_read = 0
               d == r.decryptor
               has == d.tag = "Decryptor"
               d1 == IF last THEN [d EXCEPT !.tag = "Empty"]
                     ELSE IF has /\ x.ok THEN [d EXCEPT !.position = @ + 1]
                     ELSE d
               r1 == [r EXCEPT !.decryptor = d1,
                               !.dec_last = IF last /\ has
                                            THEN [calls |-> @.calls + 1, ok |-> @.ok \/ x.ok]
                                            ELSE @]
           IN IF ~has \/ ~x.ok THEN ROutcome(r1, "aead")
              ELSE ROutcome([r1 EXCEPT !.buffer = x.buffer, !.authentic = TRUE], "ok")
           : x \in {DecryptInPlace(r.decryptor.nonce, r.decryptor.position,
                                   r.bytes_to_read = 0, r.buffer)} })

\* read after read_exact x filled the resized buffer: the next chunk size, the decrypt
RECURSIVE ReadLoop(_, _, _)
Filled(r, x, k, drain) ==
    Only({ IF ~x.ok THEN ROutcome(r1, "io")
           ELSE Only({ IF c.res # "ok" THEN c
                       ELSE Only({ IF d.res # "ok" THEN d ELSE ReadLoop(d.r, k, drain)
                                   : d \in {DecryptStep(c.r)} })
                       : c \in {ReadChunkSize(r1, k)} })
           : r1 \in {[r EXCEPT !.buffer = x.bytes, !.reader = x.src, !.authentic = FALSE]} })

\* the while self.buffer.is_empty() loop of read; res "eof" is its return Ok(0)
ReadLoop(r, k, drain) ==
    IF r.buffer # << >> THEN ROutcome(r, "ok")
    ELSE IF r.bytes_to_read = 0 THEN ROutcome(r, "eof")
    ELSE IF ~ResizeZeroed(r.kind, r.cap, r.bytes_to_read).ok THEN ROutcome(r, "aead")
    ELSE Only({ Filled(r, x, k, drain) : x \in {ReadExact(r.reader, r.bytes_to_read, drain)} })

\* the first-call part of read: the nonce, init, the first chunk size
Start(r, k, drain) ==
    IF r.decryptor.tag # "Uninit" THEN ROutcome(r, "ok")
    ELSE Only({ IF ~x.ok THEN ROutcome([r EXCEPT !.reader = x.src], "io")
                ELSE Only({ ReadChunkSize(r1, k)
                            : r1 \in {[r EXCEPT !.reader = x.src,
                                                !.decryptor = [tag |-> "Decryptor",
                                                               nonce |-> x.bytes,
                                                               position |-> 0]]} })
                : x \in {ReadExact(r.reader, NonceSize, drain)} })

\* the copy-out with a read_offset that a partial copy does not advance
CopyOutStuck(r, want) ==
    LET bytes_to_copy == Min(Len(r.buffer) - r.read_offset, want)
        from == r.read_offset
        out == SubSeq(r.buffer, from + 1, from + bytes_to_copy)
        r1 == IF Len(r.buffer) = from + bytes_to_copy
              THEN [r EXCEPT !.read_offset = 0, !.buffer = << >>]
              ELSE r
    IN [ROutcome(r1, "ok") EXCEPT !.n = bytes_to_copy, !.out = out,
                                  !.unauth = bytes_to_copy > 0 /\ ~r.authentic]

\* the copy-out that never resets read_offset nor empties the buffer
CopyOutNoReset(r, want) ==
    LET bytes_to_copy == Min(Len(r.buffer) - r.read_offset, want)
        from == r.read_offset
        out == SubSeq(r.buffer, from + 1, from + bytes_to_copy)
        wiped == [i \in 1..Len(r.buffer) |->
                    IF i > from /\ i <= from + bytes_to_copy THEN 0 ELSE r.buffer[i]]
        r1 == [r EXCEPT !.read_offset = from + bytes_to_copy, !.buffer = wiped]
    IN [ROutcome(r1, "ok") EXCEPT !.n = bytes_to_copy, !.out = out,
                                  !.unauth = bytes_to_copy > 0 /\ ~r.authentic]

\* the copy-out part of read
CopyOut(r, want) ==
    LET bytes_to_copy == Min(Len(r.buffer) - r.read_offset, want)
        from == r.read_offset
        out == SubSeq(r.buffer, from + 1, from + bytes_to_copy)
        wiped == [i \in 1..Len(r.buffer) |->
                    IF i > from /\ i <= from + bytes_to_copy THEN 0 ELSE r.buffer[i]]
        r1 == IF Len(r.buffer) = from + bytes_to_copy
              THEN [r EXCEPT !.read_offset = 0, !.buffer = << >>]
              ELSE [r EXCEPT !.read_offset = from + bytes_to_copy, !.buffer = wiped]
    IN [ROutcome(r1, "ok") EXCEPT !.n = bytes_to_copy, !.out = out,
                                  !.unauth = bytes_to_copy > 0 /\ ~r.authentic]

\* read starting over from the head of the source once it has reported the end
ReadRewind(r, want, k, drain) ==
    Only({ IF s.res # "ok" THEN s
           ELSE Only({ IF l.res = "eof"
                       THEN [l EXCEPT !.res = "ok", !.r.reader.pos = 0,
                                      !.r.decryptor.tag = "Uninit"]
                       ELSE IF l.res # "ok" THEN l
                       ELSE CopyOut(l.r, want)
                       : l \in {ReadLoop(s.r, k, drain)} })
           : s \in {Start(r, k, drain)} })

\* DecryptBufReader::read
Read_(r, want, k, drain) ==
    Only({ IF s.res # "ok" THEN s
           ELSE Only({ IF l.res = "eof" THEN [l EXCEPT !.res = "ok"]
                       ELSE IF l.res # "ok" THEN l
                       ELSE CopyOut(l.r, want)
                       : l \in {ReadLoop(s.r, k, drain)} })
           : s \in {Start(r, k, drain)} })

\* ------------------------------------------------- reader actions
WriterDone == wlife \in {"dropped", "forgotten"}

\* The reader is constructed over the bytes `data` once the writer is gone.  Of the
\* writer the run keeps how it was built, what it accepted, the state it ended in
\* and what its sink took; the fields of the destroyed object are cleared.
Open(k, cap, data, how) ==
    /\ WriterDone
    /\ rlife = "unbuilt"
    /\ \E r \in {NewReader(cap)} :
          /\ rlife' = IF r.ok THEN "live" ELSE "invalid"
          /\ rcapacity' = r.capacity
    /\ rbuf' = [kind |-> k, cap |-> cap]
    /\ attack' = how
    /\ reader' = [data |-> data, pos |-> 0]
    /\ wlife' = "gone"
    /\ encryptor' = NoEncryptor
    /\ buffer' = << >>
    /\ wres' = [op |-> "none", kind |-> "ok", n |-> 0, enc_len |-> -1]
    /\ enc_last' = 0
    /\ wops' = 0
    /\ wfaults' = 0
    /\ werrs' = FALSE
    /\ UNCHANGED << ctor, wbuf, nonce, writer, capacity, state, accepted >>
    /\ UNCHANGED << decryptor, rbuffer, bytes_to_read, read_offset, rres, delivered,
                    authentic, leaked, dec_last, big >>

\* the reader is given the bytes the sink took
OpenHonest(k, cap) == Open(k, cap, writer, "none")

\* ... or a strict prefix of a finished stream
OpenTruncated(k, cap, cut) ==
    /\ state = "Finished"
    /\ cut < Len(writer)
    /\ Open(k, cap, SubSeq(writer, 1, cut), "truncated")

\* ... or a finished stream with one byte after the nonce changed
TamperBytes == {0, 3, 255}
OpenTampered(k, cap, i, v) ==
    /\ state = "Finished"
    /\ i > NonceSize
    /\ i <= Len(writer)
    /\ writer[i] # v
    /\ Open(k, cap, [writer EXCEPT ![i] = v], "tampered")

Read(want, k, drain) ==
    /\ rlife = "live"
    /\ Len(delivered) < MaxDeliver
    /\ \E o \in {Read_(RSelf, want, k, drain)} :
          /\ decryptor' = o.r.decryptor
          /\ rbuffer' = o.r.buffer
          /\ reader' = o.r.reader
          /\ bytes_to_read' = o.r.bytes_to_read
          /\ read_offset' = o.r.read_offset
          /\ authentic' = o.r.authentic
          /\ dec_last' = o.r.dec_last
          /\ rres' = [kind |-> o.res, want |-> want, n |-> o.n,
                      oversize |-> o.r.oversize, len_end |-> o.r.len_end]
          /\ delivered' = delivered \o o.out
          /\ leaked' = (leaked \/ o.unauth)
    /\ UNCHANGED << rlife, rbuf, attack, rcapacity, big >>
    /\ UNCHANGED wvars

\* ------------------------------------- writer lengths around 2^32
\* a usize as two limbs, hi * Limb + lo; hi passes Limb - 1 where usize has 64 bits
Wide(hi, lo) == [hi |-> hi, lo |-> lo]

WideLess(a, b) == a.hi < b.hi \/ (a.hi = b.hi /\ a.lo < b.lo)

WideMin(a, b) == IF WideLess(b, a) THEN b ELSE a

WideSum(a, b) ==
    IF a.lo + b.lo >= Limb THEN Wide(a.hi + b.hi + 1, a.lo + b.lo - Limb)
    ELSE Wide(a.hi + b.hi, a.lo + b.lo)

\* a - b for b <= a
WideDiff(a, b) ==
    IF a.lo >= b.lo THEN Wide(a.hi - b.hi, a.lo - b.lo)
    ELSE Wide(a.hi - b.hi - 1, a.lo + Limb - b.lo)

\* u32::MAX as usize
U32Max == Wide(Limb - 1, Limb - 1)

\* `as u32`: the low 32 bits
AsU32(v) == Wide(v.hi % Limb, v.lo)

\* u32::to_be_bytes
WideToBeBytes(v) == << v.hi \div 256, v.hi % 256, v.lo \div 256, v.lo % 256 >>

\* EncryptBufWriter::new on a capacity given as limbs
WideNew(cap) ==
    Only({ IF WideLess(c, Wide(0, 1)) THEN [ok |-> FALSE, capacity |-> Wide(0, 0)]
           ELSE [ok |-> TRUE, capacity |-> c]
           : c \in {WideMin(cap, U32Max)} })

\* EncryptBufWriter::from_aead on a capacity given as limbs
WideFromAead(cap) ==
    Only({ IF WideLess(c, Wide(0, TagSize)) THEN [ok |-> FALSE, capacity |-> Wide(0, 0)]
           ELSE IF WideLess(WideDiff(c, Wide(0, TagSize)), Wide(0, 1))
           THEN [ok |-> FALSE, capacity |-> Wide(0, 0)]
           ELSE [ok |-> TRUE, capacity |-> WideDiff(c, Wide(0, TagSize))]
           : c \in {WideMin(cap, U32Max)} })

\* flush_buffer over a sink that takes every byte: the chunk grows by the tag, its
\* length goes out as a u32, the buffer is truncated
WideFlushBuffer(b, last) ==
    IF b.state = "Finished" THEN b
    ELSE Only({ [b EXCEPT !.frames = @ + 1,
                          !.pt = b.len,
                          !.ct = ct,
                          !.prefix = WideToBeBytes(AsU32(ct)),
                          !.state = IF last THEN "Finished" ELSE "Writing",
                          !.len = Wide(0, 0)]
                : ct \in {WideSum(b.len, Wide(0, TagSize))} })

\* EncryptBufWriter::write of a slice of n bytes
WideWrite(b, n) ==
    Only({ [fl EXCEPT !.len = WideSum(@, WideMin(n, WideDiff(fl.capacity, fl.len)))]
           : fl \in {IF WideLess(WideDiff(b.capacity, b.len), n)
                     THEN WideFlushBuffer(b, FALSE) ELSE b} })

\* buffer capacities and slice lengths about the tag size, 2^16 and 2^32
WidePoints ==
    {Wide(0, 0), Wide(0, 1), Wide(0, TagSize), Wide(0, TagSize + 1), Wide(1, 0),
     Wide(Limb - 1, Limb - 1 - TagSize), Wide(Limb - 1, Limb - TagSize),
     Wide(Limb - 1, Limb - 1), Wide(Limb, 0), Wide(Limb, TagSize + 1)}

NoBig == [life |-> "unbuilt", ctor |-> "none", cap |-> Wide(0, 0), capacity |-> Wide(0, 0),
          len |-> Wide(0, 0), state |-> "Init", ops |-> 0, frames |-> 0,
          pt |-> Wide(0, 0), ct |-> Wide(0, 0), prefix |-> << 0, 0, 0, 0 >>]

BigConstruct(c, cap) ==
    /\ big.life = "unbuilt"
    /\ \E r \in {IF c = "new" THEN WideNew(cap) ELSE WideFromAead(cap)} :
          big' = [big EXCEPT !.life = IF r.ok THEN "live" ELSE "invalid",
                             !.ctor = c, !.cap = cap, !.capacity = r.capacity]
    /\ UNCHANGED << wvars, rvars >>

BigWrite(n) ==
    /\ big.life = "live"
    /\ big.state # "Finished"
    /\ big.ops < MaxOps
    /\ WideLess(Wide(0, 0), n)
    /\ big' = [WideWrite(big, n) EXCEPT !.ops = @ + 1]
    /\ UNCHANGED << wvars, rvars >>

BigFlush ==
    /\ big.life = "live"
    /\ big.state # "Finished"
    /\ big' = WideFlushBuffer(big, TRUE)
    /\ UNCHANGED << wvars, rvars >>

\* ---------------------------------------------------- specification
Init ==
    /\ wlife = "unbuilt"
    /\ ctor = "none"
    /\ wbuf = [kind |-> "none", cap |-> 0]
    /\ encryptor = NoEncryptor
    /\ nonce = << >>
    /\ buffer = << >>
    /\ writer = << >>
    /\ capacity = 0
    /\ state = "Init"
    /\ wres = [op |-> "none", kind |-> "ok", n |-> 0, enc_len |-> -1]
    /\ accepted = << >>
    /\ enc_last = 0
    /\ wops = 0
    /\ wfaults = 0
    /\ werrs = FALSE
    /\ rlife = "unbuilt"
    /\ rbuf = [kind |-> "none", cap |-> 0]
    /\ attack = "none"
    /\ decryptor = [tag |-> "Uninit", nonce |-> << >>, position |-> 0]
    /\ rbuffer = << >>
    /\ reader = [data |-> << >>, pos |-> 0]
    /\ bytes_to_read = 0
    /\ read_offset = 0
    /\ rcapacity = 0
    /\ rres = [kind |-> "none", want |-> 0, n |-> 0, oversize |-> FALSE, len_end |-> -1]
    /\ delivered = << >>
    /\ authentic = FALSE
    /\ leaked = FALSE
    /\ dec_last = [calls |-> 0, ok |-> FALSE]
    /\ big = NoBig

\* the writer's calls, the sink failing at the call numbers of F
WriterCalls(F) ==
    \/ \E len \in 0..MaxSlice, f \in F \cap FaultChoices, took \in Sinks, checks \in BOOLEAN :
          Write(len, f, took, checks)
    \/ \E f \in F \cap FaultChoices, took \in Sinks : Flush(f, took)
    \/ \E f \in F \cap FaultChoices, took \in Sinks : IntoInner(f, took)
    \/ \E f \in F \cap FaultChoices, took \in Sinks : Drop(f, took)

Build ==
    \E c \in Ctors, k \in BufKinds, cap \in 0..MaxCap, nn \in Nonces : Construct(c, k, cap, nn)

\* the writer over a sink that may fail
WriterNext == Build \/ WriterCalls(0..4)

Reads == \E want \in 0..MaxSlice, k \in ShortReads, drain \in BOOLEAN : Read(want, k, drain)

\* a caller reading to the end: it stops at the first error and at end-of-stream
AtEnd == rres.kind \notin {"none", "ok"} \/ (rres.kind = "ok" /\ rres.want > 0 /\ rres.n = 0)

ReadsToEnd ==
    \E want \in 0..MaxSlice, k \in ShortReads, drain \in BOOLEAN : ~AtEnd /\ Read(want, k, drain)

Honest == \E k \in BufKinds, cap \in 0..MaxCap : OpenHonest(k, cap)

\* the attacked stream is read with a buffer that holds every chunk of the model
Attacks ==
    \/ \E k \in ReaderKinds, cut \in 0..(Len(writer) - 1) :
          OpenTruncated(k, MaxCap + TagSize, cut)
    \/ \E k \in ReaderKinds, i \in 1..Len(writer), v \in TamperBytes :
          OpenTampered(k, MaxCap + TagSize, i, v)

\* a writer over a sink that takes every byte, then a reader over what the sink took
Next == Build \/ WriterCalls({0}) \/ Honest \/ Reads

Spec == Init /\ [][Next]_vars

\* ... or over a strict prefix of it, or over it with one byte changed
AttackNext == Build \/ WriterCalls({0}) \/ Attacks \/ ReadsToEnd

SpecAttack == Init /\ [][AttackNext]_vars

\* a reader over any of these inputs, called again after errors and after the end
AnyReadsNext == Build \/ WriterCalls({0}) \/ Honest \/ Attacks \/ Reads

SpecAnyReads == Init /\ [][AnyReadsNext]_vars

\* ------------------------------- read_chunk_size on its own
\* what the source holds where a length prefix is due: up to one byte more than a prefix
LenBytes == {0, 1, 3, 255}
LenData == UNION { [1..n -> LenBytes] : n \in 0..(LenSize + 1) }

\* a reader inside read, about to call read_chunk_size: after the nonce and init
\* (prior = 0) or after the read_exact of a chunk of one byte (prior = 1)
LenInit ==
    /\ wlife = "unbuilt"
    /\ ctor = "none"
    /\ wbuf = [kind |-> "none", cap |-> 0]
    /\ encryptor = NoEncryptor
    /\ nonce = << >>
    /\ buffer = << >>
    /\ writer = << >>
    /\ capacity = 0
    /\ state = "Init"
    /\ wres = [op |-> "none", kind |-> "ok", n |-> 0, enc_len |-> -1]
    /\ accepted = << >>
    /\ enc_last = 0
    /\ wops = 0
    /\ wfaults = 0
    /\ werrs = FALSE
    /\ big = NoBig
    /\ rlife = "live"
    /\ attack = "none"
    /\ read_offset = 0
    /\ rres = [kind |-> "none", want |-> 0, n |-> 0, oversize |-> FALSE, len_end |-> -1]
    /\ delivered = << >>
    /\ authentic = FALSE
    /\ leaked = FALSE
    /\ dec_last = [calls |-> 0, ok |-> FALSE]
    /\ \E cap \in 1..MaxCap, nn \in Nonces, prior \in 0..1, d \in LenData :
          /\ rbuf = [kind |-> "vec", cap |-> cap]
          /\ rcapacity = NewReader(cap).capacity
          /\ decryptor = [tag |-> "Decryptor", nonce |-> nn, position |-> 0]
          /\ bytes_to_read = prior
          /\ rbuffer = [i \in 1..prior |-> 3]
          /\ reader = [data |-> nn \o (IF prior = 1 THEN << 0, 0, 0, 1, 3 >> ELSE << >>) \o d,
                       pos |-> NonceSize + (IF prior = 1 THEN LenSize + 1 ELSE 0)]

\* the call of read_chunk_size
ReadLen(k) ==
    /\ rlife = "live"
    /\ rres.kind = "none"
    /\ \E o \in {ReadChunkSize(RSelf, k)} :
          /\ reader' = o.r.reader
          /\ bytes_to_read' = o.r.bytes_to_read
          /\ rres' = [kind |-> o.res, want |-> 0, n |-> 0,
                      oversize |-> o.r.oversize, len_end |-> o.r.len_end]
    /\ UNCHANGED << rlife, rbuf, attack, decryptor, rbuffer, read_offset, rcapacity,
                    delivered, authentic, leaked, dec_last, big >>
    /\ UNCHANGED wvars

LenNext == \E k \in ShortReads : ReadLen(k)

SpecLen == LenInit /\ [][LenNext]_vars

\* ... by a caller that goes on calling read with a non-empty slice
ReadsNonEmpty ==
    \E want \in 1..MaxSlice, k \in ShortReads, drain \in BOOLEAN : Read(want, k, drain)

\* the reader's buffer holds every chunk of the model
OpenWhole == \E k \in ReaderKinds : OpenHonest(k, MaxCap + TagSize)

ReadOnNext == Build \/ WriterCalls({0}) \/ OpenWhole \/ Attacks \/ ReadsNonEmpty

SpecReadOn == Init /\ [][ReadOnNext]_vars /\ WF_vars(ReadsNonEmpty)

\* the writer alone, over a sink that may fail
SpecWriter == Init /\ [][WriterNext]_vars

\* the writer's lengths alone, for buffers of any capacity
BigNext ==
    \/ \E c \in Ctors, cap \in WidePoints : BigConstruct(c, cap)
    \/ \E n \in WidePoints : BigWrite(n)
    \/ BigFlush

SpecBig == Init /\ [][BigNext]_vars

\* ======================================================== properties

\* C1: a from_aead writer that ended Finished over a sink that took every byte, read
\* back by a reader whose buffer is at least as large, delivers the accepted plaintext
\* in order: no read fails, what was delivered is always a prefix of what was
\* accepted, and a read of a non-empty slice returns 0 only once all of it was delivered.
RoundTripCase ==
    /\ rlife = "live"
    /\ attack = "none"
    /\ ctor = "from_aead"
    /\ state = "Finished"
    /\ rbuf.cap >= wbuf.cap

C1_RoundTrip ==
    RoundTripCase =>
        /\ rres.kind \in {"none", "ok"}
        /\ IsPrefix(delivered, accepted)
        /\ (rres.kind = "ok" /\ rres.want > 0 /\ rres.n = 0 => delivered = accepted)

\* a plaintext of several chunks was read back whole and the reader reported the end
C1_Witness ==
    /\ RoundTripCase
    /\ Len(accepted) = MaxPlain
    /\ capacity < MaxPlain
    /\ delivered = accepted
    /\ rres.kind = "ok" /\ rres.want > 0 /\ rres.n = 0

\* C2: no byte reaches a caller's slice from a buffer that does not hold the output
\* of a successful decrypt_next / decrypt_last, also on reads after a failed read.
C2_NoUnauthenticatedPlaintext == ~leaked

\* C3: a read of a non-empty slice returns Ok(0) only after decrypt_last succeeded.
C3_EofOnlyWhenDrained ==
    (rres.kind = "ok" /\ rres.want > 0 /\ rres.n = 0) => dec_last.ok

\* C4: reading a strict prefix of a finished stream to the end never completes
\* successfully having delivered all of the plaintext.
C4_TruncationDetected ==
    (attack = "truncated" /\ rres.kind = "ok" /\ rres.want > 0 /\ rres.n = 0)
        => Len(delivered) < Len(accepted)

\* C5: reading a finished stream of a non-empty plaintext with one byte after the
\* nonce changed, to the end, ends in an AEAD error.
C5_TamperDetected ==
    (attack = "tampered" /\ Len(accepted) > 0 /\ AtEnd) => rres.kind = "aead"

\* C6: a read call that met a length prefix declaring more than the effective capacity
\* fails with an AEAD error and has consumed nothing after that prefix.
C6_OversizeRejected ==
    rres.oversize => (rres.kind = "aead" /\ reader.pos = rres.len_end)

\* an oversized prefix met after a first chunk was read
C6_Witness ==
    /\ rres.oversize
    /\ rres.len_end > NonceSize + LenSize
    /\ rres.kind = "aead"

\* C7: encrypt_last_in_place is never invoked twice on a writer, it has been invoked
\* once when the writer is gone (dropped, or forgotten by a successful into_inner),
\* and a writer is Finished only after that one invocation.
C7_EncryptLastOnce ==
    /\ enc_last <= 1
    /\ (WriterDone => enc_last = 1)
    /\ (wlife = "live" /\ state = "Finished" => enc_last = 1)

\* a flush failed on the sink after encrypt_last, and the drop did not encrypt again
C7_Witness ==
    /\ wlife = "dropped"
    /\ wres.op = "drop" /\ wres.kind = "aead"
    /\ wfaults = 1
    /\ enc_last = 1

\* C8: dropping a writer that has seen only successful writes, over a sink that takes
\* every byte, appends (the nonce if none was sent and) exactly the encrypt_last frame
\* of the buffered plaintext and leaves the writer Finished.
C8_DropFinalizes ==
    [][ ( /\ wlife = "live" /\ wlife' = "dropped" /\ wres'.op = "drop"
          /\ state # "Finished" /\ ~werrs /\ enc_last = 0
          /\ wfaults' = wfaults )
        => ( /\ state' = "Finished"
             /\ enc_last' = 1
             /\ writer' = writer \o (IF state = "Init" THEN nonce ELSE << >>)
                          \o ToBeBytes(Len(buffer) + TagSize)
                          \o Mask(nonce, encryptor.position, buffer)
                          \o TagOf(nonce, encryptor.position, TRUE, buffer) ) ]_vars

\* C9: either constructor fails exactly when min(capacity, u32::MAX) - tag size < 1,
\* and otherwise sets the effective capacity to that difference.
C9_CapacityValidated ==
    wres.op = "construct" =>
        /\ (wres.kind = "invalid" <=> ClampU32(wbuf.cap) - TagSize < 1)
        /\ (wres.kind = "ok" => capacity = ClampU32(wbuf.cap) - TagSize)

\* C10: whenever a call on a writer over a fixed-capacity buffer invoked encrypt_next
\* or encrypt_last, the buffer length plus the tag size was within the capacity.
C10_EncryptFits ==
    (wbuf.kind = "array" /\ wres.enc_len >= 0) => wres.enc_len + TagSize <= wbuf.cap

\* C11: the length prefix of every frame, read as a big-endian u32, is the number of
\* ciphertext bytes that follow it, which is the chunk's plaintext length plus the tag
\* size, for a buffer of any capacity.
C11_FrameLength ==
    big.frames > 0 =>
        /\ Wide(HiLimb(big.prefix), LoLimb(big.prefix)) = big.ct
        /\ big.ct = WideSum(big.pt, Wide(0, TagSize))

\* C12: nothing reaches the sink while the writer is in Init and no emission was tried;
\* what the sink holds starts with the nonce, whole once the writer has left Init, and
\* the nonce is not in the sink a second time.
C12_HeaderFirstOnce ==
    /\ (state = "Init" /\ wfaults = 0 => writer = << >>)
    /\ (Len(writer) <= NonceSize => IsPrefix(writer, nonce))
    /\ (Len(writer) > NonceSize => IsPrefix(nonce, writer))
    /\ (state # "Init" => IsPrefix(nonce, writer))

\* C13, as the code has it: a writer that accepted no plaintext and was finalized over
\* a sink that took every byte has emitted exactly the nonce, the length prefix of the
\* tag size and the tag of encrypt_last over the empty buffer; no terminator follows.
EmptyStream == nonce \o << 0, 0, 0, TagSize >> \o TagOf(nonce, 0, TRUE, << >>)

C13_EmptyStreamNoTerminator ==
    (state = "Finished" /\ accepted = << >>) => writer = EmptyStream

\* an empty stream was finalized
C13_Witness ==
    /\ state = "Finished"
    /\ accepted = << >>
    /\ wres.op \in {"flush", "into_inner", "drop"}
    /\ Len(writer) = NonceSize + LenSize + TagSize

\* C13, as stated: ... and the 4-byte zero terminator after the frame.
C13_EmptyStreamTerminated ==
    (state = "Finished" /\ accepted = << >>) => writer = EmptyStream \o << 0, 0, 0, 0 >>

\* the call that just returned encrypted the last chunk and emitted it whole
Finalized == state = "Finished" /\ wres.enc_len >= 0

\* the frame at the end of what the sink took is the one of a chunk of n plaintext bytes
EndsWithFrameOf(n) ==
    /\ Len(writer) >= NonceSize + LenSize + n + TagSize
    /\ SubSeq(writer, Len(writer) - n - TagSize - LenSize + 1, Len(writer) - n - TagSize)
         = << 0, 0, 0, n + TagSize >>

\* C14, as the code has it: when plaintext was accepted, the bytes still buffered at
\* finalization, at least one and at most C_eff, go out as the last frame and no empty
\* last frame is added.
C14_LastFrameCarriesRest ==
    (Finalized /\ accepted # << >>) =>
        /\ wres.enc_len >= 1
        /\ wres.enc_len <= capacity
        /\ EndsWithFrameOf(wres.enc_len)

\* C_eff bytes, more than one, were written in one call and finalized: one frame
C14_Witness ==
    /\ Finalized
    /\ capacity >= 2
    /\ Len(accepted) = capacity
    /\ wops = 2
    /\ wres.enc_len = capacity
    /\ writer = nonce \o << 0, 0, 0, capacity + TagSize >>
                 \o Mask(nonce, 0, accepted) \o TagOf(nonce, 0, TRUE, accepted)

\* C14, as stated: when the plaintext accepted is a positive multiple of C_eff, the
\* last frame is an empty one, added after the full chunk went out as a non-last frame.
C14_ExactMultipleEmptyLast ==
    (Finalized /\ accepted # << >> /\ Len(accepted) % capacity = 0) =>
        /\ wres.enc_len = 0
        /\ EndsWithFrameOf(0)

\* C15: reader errors are terminal.  Once a read has returned an AEAD error, the next
\* read on that reader returns an error too: it neither delivers bytes nor reports
\* the clean end of the stream.
C15_ReaderErrorsTerminal ==
    [][(rlife = "live" /\ rres.kind = "aead" /\ rres' # rres) => rres'.kind # "ok"]_vars

\* C16: a write on a Finished writer, for any slice including the empty one, fails
\* with an AEAD error, appends nothing to the buffer, sends nothing to the sink and
\* leaves the writer Finished.
C16_WriteAfterFinishedRejected ==
    [][ (wlife = "live" /\ state = "Finished" /\ wres'.op = "write" /\ wops' = wops + 1)
        => ( /\ wres'.kind = "aead"
             /\ wres'.n = 0
             /\ buffer' = buffer
             /\ writer' = writer
             /\ accepted' = accepted
             /\ enc_last' = enc_last
             /\ state' = "Finished" ) ]_vars

\* a write was refused on a writer that a flush had finished
C16_Witness ==
    /\ wlife = "live"
    /\ state = "Finished"
    /\ wres.op = "write" /\ wres.kind = "aead"
    /\ accepted # << >>

\* C17: a flush, into_inner or drop on a Finished writer gets Ok from flush_buffer
\* (a flush can still fail in the sink's own flush), invokes no AEAD operation and
\* sends no byte; no call sends a byte once encrypt_last has been invoked, so its frame
\* ends the stream; and a writer forgotten by a successful into_inner is never dropped.
C17_NoOutputAfterFinished ==
    [][ /\ ( ( /\ wlife = "live" /\ state = "Finished"
                /\ wres'.op \in {"flush", "into_inner", "drop"} /\ wops' = wops + 1 )
             => ( /\ wres'.enc_len = -1
                  /\ enc_last' = enc_last
                  /\ writer' = writer
                  /\ buffer' = buffer
                  /\ state' = "Finished"
                  /\ wres'.kind \in {"ok", "io"}
                  /\ (wres'.kind = "io" => wres'.op = "flush" /\ wfaults' = wfaults + 1) ) )
        /\ (enc_last = 1 => writer' = writer)
        /\ (wlife = "forgotten" => wlife' = "forgotten" /\ wops' = wops) ]_vars

\* a writer finished by a flush was dropped, and the drop did nothing
C17_Witness ==
    /\ wlife = "dropped"
    /\ state = "Finished"
    /\ wres.op = "drop" /\ wres.kind = "ok" /\ wres.enc_len = -1
    /\ enc_last = 1
    /\ accepted # << >>

\* C18: when into_inner returns an error, the writer handed back has a buffer of
\* length 0 if the encryption succeeded and the sink failed afterwards, and of the
\* length of the pending plaintext if the AEAD operation failed.
C18_BufferOnIntoInnerFailure ==
    (wlife = "live" /\ wres.op = "into_inner") =>
        /\ (wres.kind = "io" => Len(buffer) = 0)
        /\ (wres.kind = "aead" /\ wres.enc_len >= 0 => Len(buffer) = wres.enc_len)

\* C19: the stream of a writer of either constructor that ended Finished, read by a
\* reader whose buffer holds its largest frame, comes out the same whatever the
\* slice lengths of the reads: after every read the bytes delivered so far are a
\* prefix of the accepted plaintext, a read of a non-empty slice returns 0 only when
\* all of it was delivered, and no read returns more than the slice length.
TransparentCase ==
    /\ rlife = "live"
    /\ attack = "none"
    /\ state = "Finished"
    /\ rbuf.cap >= capacity + TagSize

C19_ChunkBoundaryTransparency ==
    /\ rres.n <= rres.want
    /\ read_offset <= Len(rbuffer)
    /\ TransparentCase =>
           /\ rres.kind \in {"none", "ok"}
           /\ IsPrefix(delivered, accepted)
           /\ (rres.kind = "ok" /\ rres.want > 0 /\ delivered # accepted => rres.n > 0)

\* a read stopped inside a chunk after an earlier chunk had been delivered
C19_Witness ==
    /\ TransparentCase
    /\ read_offset > 0
    /\ Len(delivered) > read_offset
    /\ rres.kind = "ok" /\ rres.n > 0

\* C20: a write on a writer that is not Finished flushes a non-last chunk exactly when
\* the offered slice is longer than the remaining capacity, and the frame then
\* carries the whole buffer, whatever its length, from none to C_eff bytes; a slice
\* that fits is appended whole and nothing is sent.
C20_FlushWhenSliceDoesNotFit ==
    [][ (state # "Finished" /\ wres'.op = "write" /\ wops' = wops + 1
                              /\ wres'.kind # "panic") =>
        \A len \in 0..MaxSlice, f \in (IF wfaults' = wfaults THEN {0} ELSE 1..4),
           took \in (IF wfaults' = wfaults THEN {"none"} ELSE Sinks) :
          Write(len, f, took, FALSE) =>
             LET fits == len <= CapacityRemaining(Self)
                 slice == SubSeq(Plaintext, Len(accepted) + 1, Len(accepted) + len)
             IN /\ fits => /\ wres'.enc_len = -1
                           /\ writer' = writer
                           /\ (wres'.kind = "ok" =>
                                  wres'.n = len /\ buffer' = buffer \o slice)
                /\ (~fits /\ encryptor.some) => wres'.enc_len = Len(buffer)
                /\ (~fits /\ wres'.kind = "ok") =>
                      /\ Len(buffer) <= capacity
                      /\ writer' = writer \o (IF state = "Init" THEN nonce ELSE << >>)
                                    \o ToBeBytes(Len(buffer) + TagSize)
                                    \o Mask(nonce, encryptor.position, buffer)
                                    \o TagOf(nonce, encryptor.position, FALSE, buffer)
                      /\ wres'.n = Min(len, capacity)
                      /\ buffer' = SubSeq(slice, 1, wres'.n) ]_vars

\* a write sent a partially filled buffer as a non-last frame
C20_Witness ==
    /\ ctor = "from_aead"
    /\ wres.op = "write" /\ wres.kind = "ok"
    /\ wres.enc_len >= 1
    /\ wres.enc_len < capacity
    /\ Len(buffer) = capacity

\* C20 as stated: a write flushes a non-last chunk only from a full buffer, so every
\* non-last frame carries exactly C_eff plaintext bytes.
C20_NonLastFrameFull ==
    (wres.op = "write" /\ wres.enc_len >= 0) => wres.enc_len = capacity

\* C21: a write that returns Ok(n) has appended the first n bytes of the slice to the
\* buffer, n is at most the slice length, on return n is the slice length or the
\* buffer holds `capacity` bytes, and n is at least 1 for a non-empty slice.
C21_WriteProgress ==
    [][ (wres'.op = "write" /\ wops' = wops + 1 /\ wres'.kind = "ok") =>
        \A len \in 0..MaxSlice :
          Write(len, 0, "none", FALSE) =>
             LET slice == SubSeq(Plaintext, Len(accepted) + 1, Len(accepted) + len)
                 n == wres'.n
             IN /\ n <= len
                /\ accepted' = accepted \o SubSeq(slice, 1, n)
                /\ Len(buffer') >= n
                /\ SubSeq(buffer', Len(buffer') - n + 1, Len(buffer')) = SubSeq(slice, 1, n)
                /\ Len(buffer') - n = (IF wres'.enc_len >= 0 THEN 0 ELSE Len(buffer))
                /\ (n = len \/ Len(buffer') = capacity)
                /\ (len >= 1 => n >= 1) ]_vars

\* a write sent a full buffer as a frame and filled the buffer again
C21_Witness ==
    /\ ctor = "from_aead"
    /\ wres.op = "write" /\ wres.kind = "ok"
    /\ wres.enc_len = capacity
    /\ wres.n = capacity
    /\ Len(buffer) = capacity
    /\ Len(accepted) = 2 * capacity

\* C22: a call that ends in an AEAD error has sent no byte to the sink and has left
\* the state (Init, Writing, Finished) as it was; and a flush_buffer on a writer that
\* is not Finished, whose encryptor is gone or whose encryption fails, ends so.
AeadStepFails ==
    \/ ~encryptor.some
    \/ ~EncryptInPlace(wbuf.kind, wbuf.cap, nonce, encryptor.position, TRUE, buffer).ok

C22_AeadFailureNoWireEffect ==
    [][ (wlife = "live" /\ wops' = wops + 1) =>
          /\ (wres'.kind = "aead" => writer' = writer /\ state' = state)
          /\ ( ( /\ wres'.op \in {"flush", "into_inner", "drop"}
                 /\ state # "Finished"
                 /\ AeadStepFails )
               => ( /\ wres'.kind = "aead"
                    /\ writer' = writer
                    /\ state' = state
                    /\ wfaults' = wfaults ) ) ]_vars

\* an encrypt_last failed on a writer that had sent nothing
C22_Witness ==
    /\ wres.op \in {"flush", "into_inner", "drop"}
    /\ wres.kind = "aead"
    /\ wres.enc_len >= 1
    /\ state = "Init"
    /\ writer = << >>

\* C23: decrypt_last is invoked at most once on a reader, only when the length prefix
\* after the chunk was read as zero or the source ended cleanly there, and once it
\* has been invoked the reader invokes no AEAD operation and reads no further byte.
C23_DecryptLastOnceAtEnd ==
    [][ /\ dec_last'.calls <= 1
        /\ dec_last'.calls = 1 =>
              /\ decryptor'.tag = "Empty"
              /\ bytes_to_read' = 0
              /\ \/ reader'.pos = Len(reader'.data)
                 \/ /\ reader'.pos >= LenSize
                    /\ SubSeq(reader'.data, reader'.pos - LenSize + 1, reader'.pos)
                          = Zeros(LenSize)
        /\ dec_last.calls = 1 =>
              /\ decryptor' = decryptor
              /\ dec_last' = dec_last
              /\ reader' = reader
              /\ authentic' = authentic ]_vars

\* decrypt_last ran on the chunk before a zero length prefix that is not the end of
\* the input, and the reader was called again
C23_Witness ==
    /\ dec_last.calls = 1
    /\ reader.pos < Len(reader.data)
    /\ rres.kind = "ok" /\ rres.want > 0 /\ rres.n = 0

\* the offset in `data` at which its i-th frame ends: the nonce, then for each frame
\* its length prefix and the bytes it declares
RECURSIVE FrameEnd(_, _)
FrameEnd(data, i) ==
    IF i = 0 THEN NonceSize
    ELSE Only({ e + LenSize + FromBeBytes(SubSeq(data, e + 1, e + LenSize))
                : e \in {FrameEnd(data, i - 1)} })

\* a read has returned bytes, and every byte returned so far came from a chunk that
\* decrypted
DeliversPlaintext ==
    /\ rlife = "live"
    /\ rres.kind = "ok" /\ rres.n > 0
    /\ ~leaked

ChunksDecrypted == decryptor.position + (IF dec_last.ok THEN 1 ELSE 0)

\* C24: when a read returns plaintext of a chunk, the reader has taken from the source
\* the nonce, every frame up to and including that chunk's, and the length prefix that
\* follows it (no byte where the source ended at the chunk's end), and nothing more.
C24_ConsumesThroughNextPrefix ==
    DeliversPlaintext =>
        \/ reader.pos = FrameEnd(reader.data, ChunksDecrypted) + LenSize
        \/ /\ reader.pos = FrameEnd(reader.data, ChunksDecrypted)
           /\ reader.pos = Len(reader.data)

\* bytes of a first chunk were returned with the second frame's prefix consumed
C24_Witness ==
    /\ DeliversPlaintext
    /\ attack = "none"
    /\ ChunksDecrypted = 1
    /\ dec_last.calls = 0
    /\ reader.pos = FrameEnd(reader.data, 1) + LenSize

\* C24 as stated: no byte after the end of the chunk being delivered has been consumed.
C24_NoPrefetch ==
    DeliversPlaintext => reader.pos = FrameEnd(reader.data, ChunksDecrypted)

\* C25: read_chunk_size over a source that hands out 1, 3 or 4 bytes per read.  The
\* source ending before the first prefix byte sets bytes_to_read to 0 and succeeds;
\* ending after 1, 2 or 3 prefix bytes it is an AEAD error; otherwise exactly 4 bytes
\* are taken and read as one big-endian u32, which becomes bytes_to_read unless it
\* is above the capacity.
LenRest ==
    SubSeq(reader.data, NonceSize + (IF rbuffer = << >> THEN 0 ELSE LenSize + 1) + 1,
           Len(reader.data))

LenStart == Len(reader.data) - Len(LenRest)

C25_LengthReadSentinels ==
    rres.kind # "none" =>
        /\ Len(LenRest) = 0 =>
              rres.kind = "ok" /\ bytes_to_read = 0 /\ reader.pos = LenStart
        /\ Len(LenRest) \in 1..(LenSize - 1) =>
              rres.kind = "aead" /\ bytes_to_read = Len(rbuffer)
        /\ Len(LenRest) >= LenSize =>
              /\ reader.pos = LenStart + LenSize
              /\ IF \/ LenRest[1] > 0
                    \/ LenRest[2] > 0
                    \/ LenRest[3] * 256 + LenRest[4] > rcapacity
                 THEN rres.kind = "aead" /\ bytes_to_read = Len(rbuffer)
                 ELSE rres.kind = "ok" /\ bytes_to_read = LenRest[3] * 256 + LenRest[4]

\* the source ended after three bytes of a prefix that followed a chunk
C25_Witness ==
    /\ rres.kind = "aead"
    /\ Len(LenRest) = LenSize - 1
    /\ rbuffer # << >>
    /\ reader.pos = Len(reader.data)

\* C26: after a call whose AEAD step succeeded and whose sending failed on the sink,
\* the buffer holds ciphertext, and the next call on the writer does not invoke
\* encrypt_next or encrypt_last on it.
C26_NoReEncryption ==
    [][ ( /\ wlife = "live"
          /\ wres.kind = "io" /\ wres.enc_len >= 0
          /\ state # "Finished"
          /\ wops' = wops + 1 )
        => wres'.enc_len = -1 ]_vars

\* C27: whenever a call can be made on the writer its buffer holds at most `capacity`
\* bytes, so that capacity - buffer.len() does not go below zero.
C27_WriterBufferBound ==
    (wlife = "live" /\ ctor = "from_aead") => Len(buffer) <= capacity

\* C28: between read calls read_offset <= buffer length <= capacity, bytes_to_read
\* <= capacity, read_offset is 0 when the buffer is empty and below the buffer
\* length when it is not; and a read of a non-empty slice that finds the buffer
\* non-empty returns at least one byte and takes nothing from the source.
C28_ReaderOffsetInvariant ==
    [][ /\ read_offset' >= 0
        /\ read_offset' <= Len(rbuffer')
        /\ Len(rbuffer') <= rcapacity'
        /\ bytes_to_read' <= rcapacity'
        /\ (rbuffer' = << >> => read_offset' = 0)
        /\ (rbuffer' # << >> => read_offset' < Len(rbuffer'))
        /\ (rlife = "live" /\ rbuffer # << >> /\ rres'.want > 0) =>
              /\ rres'.kind = "ok"
              /\ rres'.n = Min(rres'.want, Len(rbuffer) - read_offset)
              /\ rres'.n >= 1
              /\ reader' = reader ]_vars

\* a read stopped inside a decrypted chunk with further chunks pending
C28_Witness ==
    /\ rlife = "live"
    /\ read_offset >= 1
    /\ authentic
    /\ bytes_to_read > 0
    /\ rres.kind = "ok" /\ rres.n >= 1

\* C29: over any input, a caller that goes on reading with non-empty slices gets a
\* read that returns 0 or an error; and after a read of a non-empty slice has
\* returned 0, a further read returns 0 and takes nothing from the source.
ReturnedZero == rlife = "live" /\ rres.kind = "ok" /\ rres.want > 0 /\ rres.n = 0

C29_ReaderTerminates ==
    /\ (rlife = "live" /\ rres.kind = "none")
          ~> (rres.kind \notin {"none", "ok"} \/ ReturnedZero)
    /\ [][ ReturnedZero =>
              /\ rres'.kind = "ok" /\ rres'.n = 0
              /\ reader' = reader
              /\ delivered' = delivered
              /\ decryptor' = decryptor ]_vars

\* a read returned 0 on an altered stream after bytes had been delivered, with
\* input left in the source
C29_Witness ==
    /\ ReturnedZero
    /\ attack # "none"
    /\ delivered # << >>
    /\ reader.pos < Len(reader.data)

====
